---------------------------- MODULE Spec2Model ----------------------------
(***************************************************************************)
(* Model of the scheduling store of meboin/oneclick5.                      *)
(*                                                                         *)
(*   useCalendar        (hooks/useCalendar.ts, multi-calendar version)     *)
(*   useUpcomingNotice  (hooks/useUpcomingNotice.ts)                       *)
(*   TemplateForm.handleSubmit, WeekView/MonthView cell click and drop     *)
(*   TemplateForm attachment additions          (FormSpec)                 *)
(*   CalendarWidget / MonthView month and week grids   (GridSpec)          *)
(*                                                                         *)
(* One action is one UI handler run to completion, followed by the React   *)
(* re-render it causes and the effects whose dependencies changed (the     *)
(* persist effects of useCalendar and the effect of useUpcomingNotice).    *)
(*                                                                         *)
(* Environment: localStorage.setItem and removeItem succeed (no quota       *)
(* error); ids are the readings of Date.now(), which never decrease and    *)
(* may repeat within one millisecond.                                      *)
(***************************************************************************)
EXTENDS Integers, Sequences, FiniteSets, TLC

(***************************************************************************)
(* Bounds of the model.                                                    *)
(***************************************************************************)
MaxClock == 2          \* Date.now() readings are 1..MaxClock
MaxCalendars == 2      \* calendars in the list
MaxTemplates == 2      \* templates in all calendars together
MaxEvents == 2         \* events in all calendars together
SubPerMin == 2         \* resolution of the wall clock inside one minute

(***************************************************************************)
(* Values that stand for JavaScript null / absent keys.                    *)
(***************************************************************************)
Null == [null |-> TRUE]
NullId == 0            \* a null id; Date.now().toString() is never "0"
EmptyObject == "{}"    \* what JSON.stringify makes of a File object

(***************************************************************************)
(* Array and object helpers.  Array.prototype.filter is SelectSeq and      *)
(* Array.prototype.map is written as a function over the indices.          *)
(***************************************************************************)
\* String.prototype.indexOf / Array.prototype.indexOf, 1-based; 0 when absent
IndexOf(s, x) ==
  IF \E i \in 1..Len(s) : s[i] = x
  THEN CHOOSE i \in 1..Len(s) : s[i] = x /\ \A j \in 1..(i - 1) : s[j] # x
  ELSE 0

\* index of list.find(e => e.id === id), 1-based; 0 when undefined
FindById(list, id) ==
  IF \E i \in 1..Len(list) : list[i].id = id
  THEN CHOOSE i \in 1..Len(list) :
         list[i].id = id /\ \A j \in 1..(i - 1) : list[j].id # id
  ELSE 0

\* {...a, ...b}: object spread, keys of b override keys of a
Spread(a, b) ==
  [k \in (DOMAIN a) \cup (DOMAIN b) |-> IF k \in DOMAIN b THEN b[k] ELSE a[k]]

\* object rest: the object without key k
Omit(a, k) == [x \in (DOMAIN a) \ {k} |-> a[x]]

(***************************************************************************)
(* Time strings "HH:MM" are sequences of one-character strings.            *)
(***************************************************************************)
Digits == <<"0", "1", "2", "3", "4", "5", "6", "7", "8", "9">>

RECURSIVE NumToString(_)
NumToString(n) ==
  IF n < 10 THEN <<Digits[n + 1]>>
  ELSE NumToString(n \div 10) \o <<Digits[(n % 10) + 1]>>

\* String.prototype.padStart(2, '0')
PadStart2(s) == IF Len(s) < 2 THEN <<"0">> \o s ELSE s

DigitValue(c) == (CHOOSE i \in 1..10 : Digits[i] = c) - 1

\* Number(s) for a string of decimal digits; NaN is modelled as -1
RECURSIVE ToNumber(_)
ToNumber(s) ==
  IF s = <<>> THEN 0
  ELSE IF \E i \in 1..Len(s) : \A d \in 1..10 : Digits[d] # s[i] THEN -1
  ELSE ToNumber(SubSeq(s, 1, Len(s) - 1)) * 10 + DigitValue(s[Len(s)])

\* s.split(':'), first two parts
SplitColon(s) ==
  LET p == IndexOf(s, ":")
  IN  IF p = 0 THEN <<s, <<>>>>
      ELSE <<SubSeq(s, 1, p - 1), SubSeq(s, p + 1, Len(s))>>

\* `${hour.toString().padStart(2,'0')}:${minute.toString().padStart(2,'0')}`
FormatTime(h, m) == PadStart2(NumToString(h)) \o <<":">> \o PadStart2(NumToString(m))

\* minutes since midnight of a "HH:MM" string, as update() computes the start:
\* const [h, m] = ev.startTime.split(':').map(Number); new Date(y, mo, d, h || 0, m || 0)
StartMinutes(startTime) ==
  LET parts == SplitColon(startTime)
      h == ToNumber(parts[1])
      m == ToNumber(parts[2])
  IN  (IF h < 0 THEN 0 ELSE h) * 60 + (IF m < 0 THEN 0 ELSE m)

(***************************************************************************)
(* Inputs of the user interface.                                           *)
(***************************************************************************)
DefaultCalendarName == "Calendar1"     \* the literal name of the default calendar
NewCalendarNames == {"Work"}           \* names typed when creating a calendar
RenamedNames == {"Work"}               \* names typed when renaming one

\* A file picked in the template form, as readFile() resolves it.
PickedFile ==
  [file |-> "File#1", fileData |-> "data:AAAA", fileName |-> "a.pdf",
   fileType |-> "application/pdf"]

\* The forms the user submits: the fields and the attachment list.
Forms ==
  {[data |-> [name |-> "A", duration |-> 60], attachments |-> <<>>],
   [data |-> [name |-> "B", duration |-> 120], attachments |-> <<PickedFile>>]}

\* Grid cells the user clicks or drops on: <<day, hour>> with day 0 = Monday
\* .. 6 = Sunday and hour one of HOURS = 7..18.
Cells == {<<0, 10>>, <<2, 9>>}

\* Wall-clock instants: native weekday (0 = Sunday), minute of the day and
\* the position inside the minute.
Instant(wd, h, m, sub) == [weekday |-> wd, minute |-> h * 60 + m, sub |-> sub]

(***************************************************************************)
(* Date.  A date is the number of its local day, counted from 1 January    *)
(* 1970; the time of day plays no part in the grids.                       *)
(***************************************************************************)
FirstYear == 2000
LastYear == 2027

\* the day number of a calendar date (month1 is 1..12)
DaysFromCivil(y, month1, d) ==
  LET yy == IF month1 <= 2 THEN y - 1 ELSE y
      era == yy \div 400
      yoe == yy - era * 400
      mp == IF month1 > 2 THEN month1 - 3 ELSE month1 + 9
      doy == (153 * mp + 2) \div 5 + d - 1
      doe == yoe * 365 + yoe \div 4 - yoe \div 100 + doy
  IN  era * 146097 + doe - 719468

\* the calendar date of a day number (month is 0..11 as in Date)
CivilFromDays(n) ==
  LET z == n + 719468
      era == z \div 146097
      doe == z - era * 146097
      yoe == (doe - doe \div 1460 + doe \div 36524 - doe \div 146096) \div 365
      doy == doe - (365 * yoe + yoe \div 4 - yoe \div 100)
      mp == (5 * doy + 2) \div 153
      d == doy - (153 * mp + 2) \div 5 + 1
      month1 == IF mp < 10 THEN mp + 3 ELSE mp - 9
      y == yoe + era * 400 + (IF month1 <= 2 THEN 1 ELSE 0)
  IN  [year |-> y, month |-> month1 - 1, date |-> d]

\* new Date(year, month, day): month and day outside their range roll over
NewDate(year, month, day) ==
  DaysFromCivil(year + (month \div 12), (month % 12) + 1, 1) + day - 1

getFullYear(d) == CivilFromDays(d).year
getMonth(d) == CivilFromDays(d).month
getDate(d) == CivilFromDays(d).date

\* Date.prototype.getDay: 0 is Sunday; 1 January 1970 was a Thursday
getDay(d) == (d + 4) % 7

\* Variant: a day outside the month is clamped to the month, not rolled over.
setDate_clamped(d, day) ==
  LET last == getDate(NewDate(getFullYear(d), getMonth(d) + 1, 0))
  IN  NewDate(getFullYear(d), getMonth(d),
              IF day < 1 THEN 1 ELSE IF day > last THEN last ELSE day)

\* Date.prototype.setDate
setDate(d, day) == NewDate(getFullYear(d), getMonth(d), day)

\* Date.prototype.setMonth
setMonth(d, month) == NewDate(getFullYear(d), month, getDate(d))

\* the dates the components can be opened on
Dates == NewDate(FirstYear, 0, 1)..NewDate(LastYear, 11, 31)

\* the date of the runs that do not move the grids
OpeningDate == NewDate(FirstYear, 0, 1)

\* Variant: Sunday is not treated apart.
AdjustedDay_noSundayCase(dayOfWeek) == dayOfWeek - 1

\* CalendarHeader, todayEvents: dayOfWeek === 0 ? 6 : dayOfWeek - 1
AdjustedDay(dayOfWeek) == IF dayOfWeek = 0 THEN 6 ELSE dayOfWeek - 1

\* page.tsx, handleShare: (today.getDay() + 6) % 7
ShareDay(weekday) == (weekday + 6) % 7

\* Variant: the week is taken to start on Sunday.
FirstDayOfWeek_sundayStart(d) == getDay(d)

\* (date.getDay() + 6) % 7 of the grids: Monday = 0
FirstDayOfWeek(d) == (getDay(d) + 6) % 7

\* CalendarWidget.generateCalendarDays
generateCalendarDays(current) ==
  LET year == getFullYear(current)
      month == getMonth(current)
      firstDay == NewDate(year, month, 1)
      lastDay == NewDate(year, month + 1, 0)
      firstDayOfWeek == FirstDayOfWeek(firstDay)
      prevMonth == NewDate(year, month, 0)
      before == [k \in 1..firstDayOfWeek |->
                   [date |-> getDate(prevMonth) - (firstDayOfWeek - k),
                    isCurrentMonth |-> FALSE,
                    isNextMonth |-> FALSE,
                    fullDate |-> NewDate(year, month - 1,
                                         getDate(prevMonth) - (firstDayOfWeek - k))]]
      during == [date \in 1..getDate(lastDay) |->
                   [date |-> date,
                    isCurrentMonth |-> TRUE,
                    isNextMonth |-> FALSE,
                    fullDate |-> NewDate(year, month, date)]]
      remainingDays == 42 - (Len(before) + Len(during))
      after == [date \in 1..remainingDays |->
                  [date |-> date,
                   isCurrentMonth |-> FALSE,
                   isNextMonth |-> TRUE,
                   fullDate |-> NewDate(year, month + 1, date)]]
  IN  before \o during \o after

\* MonthView: calendarDays, built in the component body by the same three loops
calendarDays(current) ==
  LET year == getFullYear(current)
      month == getMonth(current)
      firstDay == NewDate(year, month, 1)
      lastDay == NewDate(year, month + 1, 0)
      firstDayOfWeek == FirstDayOfWeek(firstDay)
      prevMonth == NewDate(year, month, 0)
      before == [k \in 1..firstDayOfWeek |->
                   [date |-> getDate(prevMonth) - (firstDayOfWeek - k),
                    isCurrentMonth |-> FALSE,
                    isNextMonth |-> FALSE,
                    fullDate |-> NewDate(year, month - 1,
                                         getDate(prevMonth) - (firstDayOfWeek - k))]]
      during == [date \in 1..getDate(lastDay) |->
                   [date |-> date,
                    isCurrentMonth |-> TRUE,
                    isNextMonth |-> FALSE,
                    fullDate |-> NewDate(year, month, date)]]
      remainingDays == 42 - (Len(before) + Len(during))
      after == [date \in 1..remainingDays |->
                  [date |-> date,
                   isCurrentMonth |-> FALSE,
                   isNextMonth |-> TRUE,
                   fullDate |-> NewDate(year, month + 1, date)]]
  IN  before \o during \o after

\* CalendarWidget.generateWeekDays
generateWeekDays(current) ==
  LET dayOfWeek == FirstDayOfWeek(current)
      monday == setDate(current, getDate(current) - dayOfWeek)
  IN  [k \in 1..7 |->
         [date |-> getDate(setDate(monday, getDate(monday) + (k - 1))),
          isCurrentMonth |-> TRUE,
          isNextMonth |-> FALSE,
          fullDate |-> setDate(monday, getDate(monday) + (k - 1))]]

(***************************************************************************)
(* State.                                                                  *)
(***************************************************************************)
VARIABLES
  calendars,           \* useState<CalendarData[]>
  selectedCalendarId,  \* useState<string | null>; NullId is null
  selectedTemplate,    \* useState<Template | null>
  storage,             \* localStorage: [calendars |-> item, selected |-> id]
  clock,               \* the last reading of Date.now()
  notice,              \* useUpcomingNotice: useState<UpcomingNotice | null>
  timer,               \* the interval the current effect set (the events its
                       \* update() captured), or Null
  intervals,           \* window's pending intervals, in the order they were set
  scanNow,             \* `now` of the run of update() that set the notice, or Null
  mounted,             \* the page is open (the hooks are mounted)
  limits,              \* how many calendars, templates and events a run creates
  attachments,         \* TemplateForm: useState<Attachment[]>
  additions,           \* TemplateForm: the additions still reading their files
  currentDate,         \* CalendarWidget, MonthView: useState(new Date())
  alerted              \* TemplateForm: the last handler run called alert()

vars == <<calendars, selectedCalendarId, selectedTemplate, storage, clock,
          notice, timer, intervals, scanNow, mounted, limits,
          attachments, additions, currentDate, alerted>>

\* the state of the components outside the store
uiVars == <<attachments, additions, currentDate, alerted>>

(***************************************************************************)
(* JSON.stringify / JSON.parse of the calendars list.  JSON keeps strings, *)
(* numbers, arrays and plain objects as they are; a File object has no     *)
(* own enumerable property and is written as {}.                           *)
(***************************************************************************)
StringifyAttachment(a) ==
  IF "file" \in DOMAIN a THEN [a EXCEPT !.file = EmptyObject] ELSE a

StringifyTemplate(t) ==
  [t EXCEPT !.attachments = 
       [a \in 1..Len(t.attachments) |-> StringifyAttachment(t.attachments[a])]]

StringifyEvent(e) == [e EXCEPT !.template = StringifyTemplate(e.template)]

StringifyCalendar(c) ==
  [c EXCEPT
     !.templates = [j \in 1..Len(c.templates) |-> StringifyTemplate(c.templates[j])],
     !.events = [k \in 1..Len(c.events) |-> StringifyEvent(c.events[k])]]

\* JSON.stringify(calendars): the text of a JSON array
JSONStringify(cs) ==
  [kind |-> "json", isArray |-> TRUE,
   items |-> [i \in 1..Len(cs) |-> StringifyCalendar(cs[i])]]

\* localStorage items that are not the text of a JSON array of calendars
AbsentItem == [kind |-> "absent"]                       \* getItem gives null
EmptyItem == [kind |-> "empty"]                         \* the empty string
CorruptItem == [kind |-> "corrupt"]                     \* JSON.parse throws
NonArrayItem == [kind |-> "json", isArray |-> FALSE]    \* e.g. "{}" or "null"

\* JSON.parse(saved) succeeds
Parses(item) == item.kind = "json"

\* JSON.parse(saved) of the text of an array
JSONParse(item) == item.items

(***************************************************************************)
(* useCalendar: the two lazy initializers (load).                          *)
(***************************************************************************)
DefaultCalendar(now) ==
  [id |-> now, name |-> DefaultCalendarName, templates |-> <<>>, events |-> <<>>]

\* Variant: a parse failure yields the empty list, as the single-calendar
\* store's loaders did.
LoadCalendars_emptyOnParseError(st, now) ==
  IF st.calendars.kind = "corrupt"
  THEN [calendars |-> <<>>, storage |-> st]
  ELSE IF /\ st.calendars.kind \notin {"absent", "empty"}
          /\ st.calendars.isArray
          /\ Len(JSONParse(st.calendars)) > 0
       THEN [calendars |-> JSONParse(st.calendars), storage |-> st]
       ELSE [calendars |-> <<DefaultCalendar(now)>>,
             storage |-> [calendars |-> JSONStringify(<<DefaultCalendar(now)>>),
                          selected |-> now]]

\* Variant: the saved value is never used.
LoadCalendars_alwaysDefault(st, now) ==
  [calendars |-> <<DefaultCalendar(now)>>,
   storage |-> [calendars |-> JSONStringify(<<DefaultCalendar(now)>>),
                selected |-> now]]

\* The calendars initializer: the calendars it returns and the storage it
\* leaves behind.  `now` is the reading of Date.now().
LoadCalendars(st, now) ==
  LET saved == st.calendars
      usable == /\ saved.kind \notin {"absent", "empty"}
                /\ Parses(saved)
                /\ saved.isArray
                /\ Len(JSONParse(saved)) > 0
  IN  IF usable
      THEN [calendars |-> JSONParse(saved), storage |-> st]
      ELSE [calendars |-> <<DefaultCalendar(now)>>,
            storage |-> [calendars |-> JSONStringify(<<DefaultCalendar(now)>>),
                         selected |-> now]]

\* Variant: the saved id is not read.
LoadSelectedCalendarId_ignoringSaved(st) == NullId

\* The selectedCalendarId initializer: saved || null
LoadSelectedCalendarId(st) == st.selected

(***************************************************************************)
(* useCalendar: derived values and pure parts of the operations.           *)
(***************************************************************************)
\* index of calendars.find(c => c.id === selectedCalendarId) || calendars[0];
\* 0 when selectedCalendar is undefined
SelectedIndex(cs, sid) ==
  LET i == FindById(cs, sid)
  IN  IF i # 0 THEN i ELSE IF Len(cs) > 0 THEN 1 ELSE 0

\* selectedCalendar?.events ?? []
EventsOf(cs, sid) ==
  IF SelectedIndex(cs, sid) = 0 THEN <<>> ELSE cs[SelectedIndex(cs, sid)].events

\* selectedCalendar?.templates ?? []
TemplatesOf(cs, sid) ==
  IF SelectedIndex(cs, sid) = 0 THEN <<>> ELSE cs[SelectedIndex(cs, sid)].templates

\* prev.map(c => (c.id === id ? updater(c) : c)); updated[i] is updater(cs[i])
updateCalendar(cs, id, updated) ==
  [i \in 1..Len(cs) |-> IF cs[i].id = id THEN updated[i] ELSE cs[i]]

\* selectedCalendar.id
SelectedId(cs, sid) == cs[SelectedIndex(cs, sid)].id

\* the new template of addTemplate
NewTemplate(templateData, now) == Spread(templateData, [id |-> now])

addTemplate(cs, sid, templateData, now) ==
  IF SelectedIndex(cs, sid) = 0 THEN cs
  ELSE updateCalendar(cs, SelectedId(cs, sid),
         [i \in 1..Len(cs) |->
            [cs[i] EXCEPT !.templates =
               Append(cs[i].templates, NewTemplate(templateData, now))]])

\* Variant: the merge is applied without the test on the id.
MergeTemplate_ignoringId(t, templateId, templateData) ==
  Spread(Spread(t, templateData), [id |-> templateId])

\* t => (t.id === templateId ? { ...t, ...templateData, id: templateId } : t)
MergeTemplate(t, templateId, templateData) ==
  IF t.id = templateId
  THEN Spread(Spread(t, templateData), [id |-> templateId])
  ELSE t

\* Variant: the update also rewrites the events placed from the template
\* (snapshot and endTime), as the single-calendar store did.
updateTemplate_rewritingEvents(cs, sid, templateId, templateData) ==
  IF SelectedIndex(cs, sid) = 0 THEN cs
  ELSE updateCalendar(cs, SelectedId(cs, sid),
         [i \in 1..Len(cs) |->
            [cs[i] EXCEPT
               !.templates =
                  [j \in 1..Len(cs[i].templates) |->
                     MergeTemplate(cs[i].templates[j], templateId, templateData)],
               !.events =
                  [k \in 1..Len(cs[i].events) |->
                     IF cs[i].events[k].templateId = templateId
                     THEN [cs[i].events[k] EXCEPT
                             !.template = MergeTemplate(cs[i].events[k].template,
                                                        templateId, templateData),
                             !.endTime = FormatTime(
                                (StartMinutes(cs[i].events[k].startTime)
                                   + templateData.duration) \div 60,
                                (StartMinutes(cs[i].events[k].startTime)
                                   + templateData.duration) % 60)]
                     ELSE cs[i].events[k]]]])

\* Variant: the stored template is replaced by the data, nothing of it kept.
updateTemplate_replacing(cs, sid, templateId, templateData) ==
  IF SelectedIndex(cs, sid) = 0 THEN cs
  ELSE updateCalendar(cs, SelectedId(cs, sid),
         [i \in 1..Len(cs) |->
            [cs[i] EXCEPT !.templates =
               [j \in 1..Len(cs[i].templates) |->
                  IF cs[i].templates[j].id = templateId
                  THEN Spread(templateData, [id |-> templateId])
                  ELSE cs[i].templates[j]]]])

updateTemplate(cs, sid, templateId, templateData) ==
  IF SelectedIndex(cs, sid) = 0 THEN cs
  ELSE updateCalendar(cs, SelectedId(cs, sid),
         [i \in 1..Len(cs) |->
            [cs[i] EXCEPT !.templates =
               [j \in 1..Len(cs[i].templates) |->
                  MergeTemplate(cs[i].templates[j], templateId, templateData)]]])

\* Variant: the deletion cascades to the events placed from the template.
deleteTemplate_cascading(cs, sid, templateId) ==
  IF SelectedIndex(cs, sid) = 0 THEN cs
  ELSE updateCalendar(cs, SelectedId(cs, sid),
         [i \in 1..Len(cs) |->
            [cs[i] EXCEPT
               !.templates = SelectSeq(cs[i].templates, LAMBDA t : t.id # templateId),
               !.events = SelectSeq(cs[i].events,
                                    LAMBDA e : e.templateId # templateId)]])

deleteTemplate(cs, sid, templateId) ==
  IF SelectedIndex(cs, sid) = 0 THEN cs
  ELSE updateCalendar(cs, SelectedId(cs, sid),
         [i \in 1..Len(cs) |->
            [cs[i] EXCEPT !.templates =
               SelectSeq(cs[i].templates, LAMBDA t : t.id # templateId)]])

\* the new event of addEvent: { ...eventData, id, template: { ...eventData.template },
\* templateId: eventData.template.id }
NewEvent(eventData, now) ==
  Spread(eventData,
         [id |-> now,
          template |-> Spread(eventData.template, <<>>),
          templateId |-> eventData.template.id])

\* Variant: the new event is put in front of the list.
addEvent_prepending(cs, sid, eventData, now) ==
  IF SelectedIndex(cs, sid) = 0 THEN cs
  ELSE updateCalendar(cs, SelectedId(cs, sid),
         [i \in 1..Len(cs) |->
            [cs[i] EXCEPT !.events = <<NewEvent(eventData, now)>> \o cs[i].events]])

addEvent(cs, sid, eventData, now) ==
  IF SelectedIndex(cs, sid) = 0 THEN cs
  ELSE updateCalendar(cs, SelectedId(cs, sid),
         [i \in 1..Len(cs) |->
            [cs[i] EXCEPT !.events = Append(cs[i].events, NewEvent(eventData, now))]])

deleteEvent(cs, sid, eventId) ==
  IF SelectedIndex(cs, sid) = 0 THEN cs
  ELSE updateCalendar(cs, SelectedId(cs, sid),
         [i \in 1..Len(cs) |->
            [cs[i] EXCEPT !.events =
               SelectSeq(cs[i].events, LAMBDA e : e.id # eventId)]])

\* Variant: the update sets endTime from the start and the snapshot's
\* duration, whatever the caller supplied.
updateEvent_recomputingEnd(cs, sid, eventId, updates) ==
  IF SelectedIndex(cs, sid) = 0 THEN cs
  ELSE updateCalendar(cs, SelectedId(cs, sid),
         [i \in 1..Len(cs) |->
            [cs[i] EXCEPT !.events =
               [k \in 1..Len(cs[i].events) |->
                  IF cs[i].events[k].id = eventId
                  THEN LET e == Spread(cs[i].events[k], updates)
                           end == StartMinutes(e.startTime) + e.template.duration
                       IN  [e EXCEPT !.endTime = FormatTime(end \div 60, end % 60)]
                  ELSE cs[i].events[k]]]])

updateEvent(cs, sid, eventId, updates) ==
  IF SelectedIndex(cs, sid) = 0 THEN cs
  ELSE updateCalendar(cs, SelectedId(cs, sid),
         [i \in 1..Len(cs) |->
            [cs[i] EXCEPT !.events =
               [k \in 1..Len(cs[i].events) |->
                  IF cs[i].events[k].id = eventId
                  THEN Spread(cs[i].events[k], updates)
                  ELSE cs[i].events[k]]]])

\* the calendar addCalendar appends
NewCalendar(name, now) ==
  [id |-> now, name |-> name, templates |-> <<>>, events |-> <<>>]

renameCalendar(cs, calendarId, newName) ==
  [i \in 1..Len(cs) |->
     IF cs[i].id = calendarId THEN [cs[i] EXCEPT !.name = newName] ELSE cs[i]]

\* deleteCalendar: the filtered list
deleteCalendar(cs, calendarId) == SelectSeq(cs, LAMBDA c : c.id # calendarId)

\* Variant: the selection is left alone when the selected calendar goes.
deleteCalendarSelection_keeping(cs, sid, calendarId) == sid

\* deleteCalendar: the selected calendar id it leaves
deleteCalendarSelection(cs, sid, calendarId) ==
  IF sid = calendarId
  THEN IF Len(deleteCalendar(cs, calendarId)) > 0
       THEN deleteCalendar(cs, calendarId)[1].id
       ELSE NullId
  ELSE sid

\* Array.prototype.splice(i, 1): the list without its element at 0-based i
RemoveAt(s, i) == SubSeq(s, 1, i) \o SubSeq(s, i + 2, Len(s))

\* Array.prototype.splice(i, 0, x): x inserted at 0-based i
InsertAt(s, i, x) == SubSeq(s, 1, i) \o <<x>> \o SubSeq(s, i + 1, Len(s))

\* Variant: the two calendars change places.
reorderCalendars_swapping(cs, fromIndex, toIndex) ==
  IF fromIndex < 0 \/ toIndex < 0 \/ fromIndex >= Len(cs) \/ toIndex >= Len(cs)
  THEN cs
  ELSE [cs EXCEPT ![fromIndex + 1] = cs[toIndex + 1], ![toIndex + 1] = cs[fromIndex + 1]]

reorderCalendars(cs, fromIndex, toIndex) ==
  IF fromIndex < 0 \/ toIndex < 0 \/ fromIndex >= Len(cs) \/ toIndex >= Len(cs)
  THEN cs
  ELSE InsertAt(RemoveAt(cs, fromIndex), toIndex, cs[fromIndex + 1])

\* Variant: the clicked template is selected whatever was selected.
selectTemplate_noToggle(prev, template) == template

\* selectTemplate: prev => (prev?.id === template.id ? null : template)
selectTemplate(prev, template) ==
  IF prev # Null /\ prev.id = template.id THEN Null ELSE template

(***************************************************************************)
(* useUpcomingNotice: one run of update() over the captured events.        *)
(***************************************************************************)
\* (now.getDay() + 6) % 7
DayIndex(weekday) == (weekday + 6) % 7

\* start.getTime() - now.getTime(), in units of 1/SubPerMin minute
DiffSub(ev, now) ==
  StartMinutes(ev.startTime) * SubPerMin - (now.minute * SubPerMin + now.sub)

\* Variant: Math.floor in place of Math.ceil.
MinutesLeft_floor(ev, now) == DiffSub(ev, now) \div SubPerMin

\* Math.ceil(diffMin)
MinutesLeft(ev, now) == (DiffSub(ev, now) + SubPerMin - 1) \div SubPerMin

\* the event passes the three `continue` tests of the loop
Considered(ev, now) ==
  /\ ev.day = DayIndex(now.weekday)
  /\ ev.startTime # <<>>
  /\ ~(DiffSub(ev, now) <= 0 \/ DiffSub(ev, now) > 60 * SubPerMin)

\* Variant: `<=` in place of `<`, the last of equal candidates wins.
ScanStep_lastWins(best, ev, now) ==
  IF ~Considered(ev, now) THEN best
  ELSE IF best = Null \/ MinutesLeft(ev, now) <= best.minutesLeft
       THEN [eventId |-> ev.id, title |-> ev.template.name,
             minutesLeft |-> MinutesLeft(ev, now)]
       ELSE best

\* one iteration of `for (const ev of events)`
ScanStep(best, ev, now) ==
  IF ~Considered(ev, now) THEN best
  ELSE IF best = Null \/ MinutesLeft(ev, now) < best.minutesLeft
       THEN [eventId |-> ev.id, title |-> ev.template.name,
             minutesLeft |-> MinutesLeft(ev, now)]
       ELSE best

RECURSIVE ScanFrom(_, _, _)
ScanFrom(best, events, now) ==
  IF events = <<>> THEN best
  ELSE ScanFrom(ScanStep(best, Head(events), now), Tail(events), now)

\* the value update() passes to setNotice
Scan(events, now) == ScanFrom(Null, events, now)

(***************************************************************************)
(* TemplateForm and the grid handlers.                                     *)
(***************************************************************************)
\* Variant: the attachment is passed on with its File handle.
SerializableAttachment_keepingFile(att) == att

\* handleSubmit: attachments.map(att => ({fileData, fileName, fileType}))
SerializableAttachment(att) ==
  [fileData |-> att.fileData, fileName |-> att.fileName, fileType |-> att.fileType]

\* handleSubmit: the object passed to onSubmit
handleSubmit(formData, atts) ==
  Spread(formData,
         [attachments |->
            [a \in 1..Len(atts) |-> SerializableAttachment(atts[a])]])

\* handleCellClick / handleDrop: the event data built for a template
EventDataFor(template, day, hour) ==
  [templateId |-> template.id,
   template |-> template,
   startTime |-> FormatTime(hour, 0),
   endTime |-> FormatTime(hour + template.duration \div 60, template.duration % 60),
   day |-> day]

\* handleDrop of a dragged event: the updates passed to onUpdateEvent
MoveUpdates(event, day, hour) ==
  [day |-> day,
   startTime |-> FormatTime(hour, 0),
   endTime |-> FormatTime(hour + event.template.duration \div 60,
                          event.template.duration % 60)]

(***************************************************************************)
(* Sets the actions draw their inputs from.                                *)
(***************************************************************************)
Ids == 1..MaxClock

\* the wall clock at the moments the notifier looks at it
Instants ==
  {Instant(1, 9, 0, 0), Instant(1, 9, 29, SubPerMin - 1)}

\* what localStorage may hold when the page is first opened
InitialStorages ==
  {[calendars |-> item, selected |-> NullId] :
     item \in {AbsentItem, EmptyItem, CorruptItem, NonArrayItem}}

\* Date.now(): the same reading as the last one, or a later one
Readings == {r \in {clock, clock + 1} : r <= MaxClock}

\* A run explores one of these: several calendars, several templates,
\* several events, or calendars alone.
Profiles ==
  {[calendars |-> MaxCalendars, templates |-> 1, events |-> 1],
   [calendars |-> 1, templates |-> MaxTemplates, events |-> 1],
   [calendars |-> 1, templates |-> 1, events |-> MaxEvents],
   [calendars |-> MaxCalendars + 1, templates |-> 0, events |-> 0]}

IndexSeq(n) == [i \in 1..n |-> i]

RECURSIVE SumLen(_, _)
SumLen(cs, field) ==
  IF cs = <<>> THEN 0 ELSE Len(Head(cs)[field]) + SumLen(Tail(cs), field)

\* how many templates and events the calendars hold together
TotalTemplates(cs) == SumLen(cs, "templates")
TotalEvents(cs) == SumLen(cs, "events")

(***************************************************************************)
(* The effects that run after a render.                                    *)
(***************************************************************************)
\* Variant: the interval is left pending.
ClearInterval_leaking(pending, t) == pending

\* window.clearInterval(id): the pending intervals without the one that the
\* effect set; nothing happens when the effect set none
ClearInterval(pending, t) ==
  IF t = Null \/ \A k \in 1..Len(pending) : pending[k] # t
  THEN pending
  ELSE LET k == CHOOSE i \in 1..Len(pending) :
                  pending[i] = t /\ \A j \in 1..(i - 1) : pending[j] # t
       IN  SubSeq(pending, 1, k - 1) \o SubSeq(pending, k + 1, Len(pending))

\* Variant: the effect restarts the interval and leaves the notice to the
\* next tick.
NoticeEffect_keepingNotice(events, now) ==
  IF events = <<>>
  THEN /\ notice' = notice
       /\ timer' = Null
       /\ intervals' = ClearInterval(intervals, timer)
       /\ scanNow' = scanNow
  ELSE /\ notice' = notice
       /\ timer' = [events |-> events]
       /\ intervals' = Append(ClearInterval(intervals, timer), [events |-> events])
       /\ scanNow' = scanNow

\* useUpcomingNotice's effect, run because `events` is a new array: the
\* cleanup of the previous run, then the body
NoticeEffect(events, now) ==
  IF events = <<>>
  THEN /\ notice' = Null
       /\ timer' = Null
       /\ intervals' = ClearInterval(intervals, timer)
       /\ scanNow' = Null
  ELSE /\ notice' = Scan(events, now)
       /\ timer' = [events |-> events]
       /\ intervals' = Append(ClearInterval(intervals, timer), [events |-> events])
       /\ scanNow' = now

\* Variant: the calendars effect depends on the selected id alone.
PersistEffects_onSelectionOnly(cs, sid, calsSet) ==
  storage' = [calendars |-> IF sid # selectedCalendarId
                            THEN JSONStringify(cs) ELSE storage.calendars,
              selected |-> IF sid # selectedCalendarId THEN sid ELSE storage.selected]

\* The persist effects of useCalendar: the calendars effect runs when
\* setCalendars stored a new array (calsSet), the selected-id effect when
\* the id changed.
PersistEffects(cs, sid, calsSet) ==
  storage' = [calendars |-> IF calsSet THEN JSONStringify(cs) ELSE storage.calendars,
              selected |-> IF sid # selectedCalendarId THEN sid ELSE storage.selected]

\* A handler has set the state to (cs, sid); React renders and runs effects.
Render(cs, sid, calsSet, eventsChanged) ==
  /\ calendars' = cs
  /\ selectedCalendarId' = sid
  /\ PersistEffects(cs, sid, calsSet)
  /\ IF eventsChanged
     THEN \E now \in Instants : NoticeEffect(EventsOf(cs, sid), now)
     ELSE UNCHANGED <<notice, timer, intervals, scanNow>>
  /\ mounted
  /\ UNCHANGED <<mounted, limits, uiVars>>

(***************************************************************************)
(* Mounting the page: initializers, first render, first effects.           *)
(***************************************************************************)
\* The two persist effects as they run after the first render.
MountEffects(cs, sid) == [calendars |-> JSONStringify(cs), selected |-> sid]

Mount(st, reading) ==
  LET loaded == LoadCalendars(st, reading)
      sid == LoadSelectedCalendarId(loaded.storage)
  IN  /\ calendars' = loaded.calendars
      /\ selectedCalendarId' = sid
      /\ selectedTemplate' = Null
      /\ storage' = MountEffects(loaded.calendars, sid)
      /\ clock' = reading
      /\ \E now \in Instants : NoticeEffect(EventsOf(loaded.calendars, sid), now)
      /\ mounted' = TRUE
      /\ limits' = limits
      /\ UNCHANGED uiVars

\* Before the page is opened only localStorage holds anything.
Init ==
  /\ storage \in InitialStorages
  /\ limits \in Profiles
  /\ calendars = <<>>
  /\ selectedCalendarId = NullId
  /\ selectedTemplate = Null
  /\ clock = 0
  /\ notice = Null
  /\ timer = Null
  /\ intervals = <<>>
  /\ scanNow = Null
  /\ mounted = FALSE
  /\ attachments = <<>>
  /\ additions = <<>>
  /\ alerted = FALSE
  /\ currentDate = OpeningDate

\* the page is opened
Open ==
  /\ ~mounted
  /\ \E reading \in Readings \ {0} : Mount(storage, reading)

\* the page is closed: the hooks unmount, the interval is cleared
Close ==
  /\ mounted
  /\ mounted' = FALSE
  /\ calendars' = <<>>
  /\ selectedCalendarId' = NullId
  /\ selectedTemplate' = Null
  /\ notice' = Null
  /\ timer' = Null
  /\ intervals' = ClearInterval(intervals, timer)
  /\ scanNow' = Null
  /\ UNCHANGED <<storage, clock, limits, uiVars>>

(***************************************************************************)
(* Calendar management.                                                    *)
(***************************************************************************)
AddCalendar ==
  \E name \in NewCalendarNames, reading \in Readings :
    LET cs == Append(calendars, NewCalendar(name, reading))
    IN  /\ Len(calendars) < limits.calendars
        /\ clock' = reading
        /\ Render(cs, reading, TRUE,
                  \/ SelectedIndex(calendars, selectedCalendarId) = 0
                  \/ SelectedIndex(cs, reading)
                       # SelectedIndex(calendars, selectedCalendarId))
        /\ UNCHANGED selectedTemplate

SelectCalendar ==
  \E i \in 1..Len(calendars) :
    /\ Render(calendars, calendars[i].id, FALSE,
              SelectedIndex(calendars, calendars[i].id)
                # SelectedIndex(calendars, selectedCalendarId))
    /\ UNCHANGED <<selectedTemplate, clock>>

RenameCalendar ==
  \E id \in Ids, name \in RenamedNames :
    /\ Render(renameCalendar(calendars, id, name), selectedCalendarId, TRUE, FALSE)
    /\ UNCHANGED <<selectedTemplate, clock>>

DeleteCalendar ==
  \E id \in Ids :
    LET cs == deleteCalendar(calendars, id)
        sid == deleteCalendarSelection(calendars, selectedCalendarId, id)
        kept == SelectSeq(IndexSeq(Len(calendars)), LAMBDA k : calendars[k].id # id)
        i == SelectedIndex(calendars, selectedCalendarId)
        j == SelectedIndex(cs, sid)
    IN  /\ Render(cs, sid, TRUE, i = 0 \/ j = 0 \/ kept[j] # i)
        /\ UNCHANGED <<selectedTemplate, clock>>

ReorderCalendars ==
  \E fromIndex \in -1..Len(calendars), toIndex \in -1..Len(calendars) :
    LET cs == reorderCalendars(calendars, fromIndex, toIndex)
        moved == reorderCalendars(IndexSeq(Len(calendars)), fromIndex, toIndex)
        i == SelectedIndex(calendars, selectedCalendarId)
        j == SelectedIndex(cs, selectedCalendarId)
    IN  /\ Render(cs, selectedCalendarId, TRUE, i = 0 \/ moved[j] # i)
        /\ UNCHANGED <<selectedTemplate, clock>>

(***************************************************************************)
(* Templates.                                                              *)
(***************************************************************************)
\* handleTemplateSubmit with no editingTemplate
AddTemplate ==
  \E form \in Forms, reading \in Readings :
    /\ SelectedIndex(calendars, selectedCalendarId) # 0
    /\ TotalTemplates(calendars) < limits.templates
    /\ clock' = reading
    /\ Render(addTemplate(calendars, selectedCalendarId,
                          handleSubmit(form.data, form.attachments), reading),
              selectedCalendarId, TRUE, FALSE)
    /\ UNCHANGED selectedTemplate

\* handleTemplateSubmit with an editingTemplate whose id is templateId
UpdateTemplate ==
  \E templateId \in Ids, form \in Forms :
    /\ SelectedIndex(calendars, selectedCalendarId) # 0
    /\ Render(updateTemplate(calendars, selectedCalendarId, templateId,
                             handleSubmit(form.data, form.attachments)),
              selectedCalendarId, TRUE, FALSE)
    /\ UNCHANGED <<selectedTemplate, clock>>

DeleteTemplate ==
  \E templateId \in Ids :
    /\ SelectedIndex(calendars, selectedCalendarId) # 0
    /\ Render(deleteTemplate(calendars, selectedCalendarId, templateId),
              selectedCalendarId, TRUE, FALSE)
    /\ UNCHANGED <<selectedTemplate, clock>>

SelectTemplate ==
  \E k \in 1..Len(TemplatesOf(calendars, selectedCalendarId)) :
    /\ selectedTemplate' =
         selectTemplate(selectedTemplate, TemplatesOf(calendars, selectedCalendarId)[k])
    /\ mounted
    /\ UNCHANGED <<calendars, selectedCalendarId, storage, clock, notice,
                   timer, intervals, scanNow, mounted, limits, uiVars>>

ClearSelection ==
  /\ selectedTemplate # Null
  /\ selectedTemplate' = Null
  /\ mounted
  /\ UNCHANGED <<calendars, selectedCalendarId, storage, clock, notice,
                 timer, intervals, scanNow, mounted, limits, uiVars>>

(***************************************************************************)
(* Events.                                                                 *)
(***************************************************************************)
\* WeekView.handleCellClick
CellClick ==
  \E cell \in Cells, reading \in Readings :
    /\ selectedTemplate # Null
    /\ SelectedIndex(calendars, selectedCalendarId) # 0
    /\ TotalEvents(calendars) < limits.events
    /\ clock' = reading
    /\ Render(addEvent(calendars, selectedCalendarId,
                       EventDataFor(selectedTemplate, cell[1], cell[2]), reading),
              selectedCalendarId, TRUE, TRUE)
    /\ UNCHANGED selectedTemplate

\* WeekView.handleDrop of a template dragged from the template storage
DropTemplate ==
  \E k \in 1..Len(TemplatesOf(calendars, selectedCalendarId)),
     cell \in Cells, reading \in Readings :
    /\ TotalEvents(calendars) < limits.events
    /\ clock' = reading
    /\ Render(addEvent(calendars, selectedCalendarId,
                       EventDataFor(StringifyTemplate(
                                      TemplatesOf(calendars, selectedCalendarId)[k]),
                                    cell[1], cell[2]),
                       reading),
              selectedCalendarId, TRUE, TRUE)
    /\ UNCHANGED selectedTemplate

\* WeekView.handleDrop of a dragged event
DragEvent ==
  \E k \in 1..Len(EventsOf(calendars, selectedCalendarId)),
     cell \in Cells :
    LET events == EventsOf(calendars, selectedCalendarId)
        found == events[FindById(events, events[k].id)]
    IN  /\ Render(updateEvent(calendars, selectedCalendarId, events[k].id,
                              MoveUpdates(found, cell[1], cell[2])),
                  selectedCalendarId, TRUE, TRUE)
        /\ UNCHANGED <<selectedTemplate, clock>>

DeleteEvent ==
  \E eventId \in Ids :
    /\ SelectedIndex(calendars, selectedCalendarId) # 0
    /\ Render(deleteEvent(calendars, selectedCalendarId, eventId),
              selectedCalendarId, TRUE, TRUE)
    /\ UNCHANGED <<selectedTemplate, clock>>

(***************************************************************************)
(* The notifier's interval fires.                                          *)
(***************************************************************************)
\* A pending interval fires: update() over the events it captured
Update(now) ==
  /\ mounted
  /\ \E k \in 1..Len(intervals) : notice' = Scan(intervals[k].events, now)
  /\ scanNow' = now
  /\ UNCHANGED <<calendars, selectedCalendarId, selectedTemplate, storage, clock,
                 timer, intervals, mounted, limits, uiVars>>

Tick == \E now \in Instants : Update(now)

Next ==
  \/ Open
  \/ Close
  \/ AddCalendar
  \/ SelectCalendar
  \/ RenameCalendar
  \/ DeleteCalendar
  \/ ReorderCalendars
  \/ AddTemplate
  \/ UpdateTemplate
  \/ DeleteTemplate
  \/ SelectTemplate
  \/ ClearSelection
  \/ CellClick
  \/ DropTemplate
  \/ DragEvent
  \/ DeleteEvent
  \/ Tick

Spec == Init /\ [][Next]_vars

(***************************************************************************)
(* useUpcomingNotice on its own: the hook is mounted over a list of events *)
(* and its interval fires at instants of the wall clock.                   *)
(***************************************************************************)
MaxNoticeEvents == 2   \* length of the list the hook is given

\* the template snapshot of the events below
NoticeTemplate == [id |-> 1, name |-> "A", duration |-> 60, attachments |-> <<>>]

\* an event as the store keeps it, starting on `day` at h:m
NoticeEvent(id, day, h, m) ==
  [id |-> id, templateId |-> NoticeTemplate.id, template |-> NoticeTemplate,
   startTime |-> FormatTime(h, m), endTime |-> FormatTime(h + 1, m), day |-> day]

\* <<id, day, hour, minute>> of the events the lists are made of
NoticeStarts ==
  {<<1, 0, 9, 30>>, <<2, 0, 10, 1>>, <<3, 0, 8, 59>>, <<4, 0, 10, 0>>,
   <<5, 1, 9, 30>>, <<6, 0, 9, 30>>, <<7, 0, 9, 0>>, <<8, 6, 9, 30>>}

NoticeEvents == {NoticeEvent(p[1], p[2], p[3], p[4]) : p \in NoticeStarts}

NoticeEventLists ==
  UNION {[1..n -> NoticeEvents] : n \in 0..MaxNoticeEvents}

\* Monday 09:00:00, Monday 09:00 and a fraction, Monday 08:59 and a
\* fraction, Tuesday 09:00:00, Sunday 09:00:00
NoticeInstants ==
  {Instant(1, 9, 0, 0), Instant(1, 9, 0, SubPerMin - 1),
   Instant(1, 8, 59, SubPerMin - 1), Instant(2, 9, 0, 0), Instant(0, 9, 0, 0)}

\* the page showing one calendar with the given events; the hook's effect
\* has run update() once
NoticeInit ==
  \E events \in NoticeEventLists, now \in NoticeInstants :
    /\ calendars = <<[id |-> 1, name |-> DefaultCalendarName,
                      templates |-> <<>>, events |-> events]>>
    /\ selectedCalendarId = 1
    /\ selectedTemplate = Null
    /\ storage = MountEffects(calendars, selectedCalendarId)
    /\ clock = MaxClock
    /\ mounted = TRUE
    /\ limits = [calendars |-> 1, templates |-> 0, events |-> MaxNoticeEvents]
    /\ notice = IF events = <<>> THEN Null ELSE Scan(events, now)
    /\ timer = IF events = <<>> THEN Null ELSE [events |-> events]
    /\ intervals = IF events = <<>> THEN <<>> ELSE <<[events |-> events]>>
    /\ scanNow = IF events = <<>> THEN Null ELSE now
    /\ attachments = <<>>
    /\ additions = <<>>
    /\ alerted = FALSE
    /\ currentDate = OpeningDate

NoticeTick == \E now \in NoticeInstants : Update(now)

NoticeNext == NoticeTick

NoticeSpec == NoticeInit /\ [][NoticeNext]_vars

(***************************************************************************)
(* The attachment list of the template form (TemplateForm.tsx).  Sizes are *)
(* counted in MiB.  An attachment is [file, fileData]: file is the picked  *)
(* File ([size |-> n]) or Null when the attachment came from a stored      *)
(* template, fileData is the length of the content it carries.             *)
(***************************************************************************)
MAX_TOTAL_ATTACHMENT_SIZE == 20

MaxAttachments == 3
MaxAdditions == 2

\* the files a user can pick or drop; the largest alone is over the ceiling
FileSizes == {8, 12, 21}
Files == {[size |-> n] : n \in FileSizes}
FileLists == {<<f>> : f \in Files} \cup {<<f, g>> : f \in Files, g \in Files}

\* readFile: the FileReader result for a file
readFile(file) == [file |-> file, fileData |-> file.size]

\* populate on edit: stored attachments carry fileData, fileName, fileType only
StoredAttachment(n) == [file |-> Null, fileData |-> n]

\* the attachment lists a stored template can have, each within the ceiling
StoredAttachmentLists ==
  {<<>>} \cup {<<StoredAttachment(n)>> : n \in {8, 12}}
         \cup {<<StoredAttachment(n), StoredAttachment(m)>> : n \in {8, 12}, m \in {8}}

\* att.file?.size || 0
FileSizeOf(att) == IF att.file = Null THEN 0 ELSE att.file.size

\* attachments.reduce((sum, att) => sum + (att.file?.size || 0), 0)
RECURSIVE TotalSize(_)
TotalSize(atts) ==
  IF atts = <<>> THEN 0 ELSE FileSizeOf(Head(atts)) + TotalSize(Tail(atts))

\* the size the attachments really have together
RECURSIVE CombinedSize(_)
CombinedSize(atts) ==
  IF atts = <<>> THEN 0 ELSE Head(atts).fileData + CombinedSize(Tail(atts))

\* the files of the additions in progress, read or still to read
RECURSIVE PendingFiles(_)
PendingFiles(adds) ==
  IF adds = <<>> THEN 0
  ELSE Len(Head(adds).files) + Len(Head(adds).newAtts) + PendingFiles(Tail(adds))

\* the loop's test: there is a next file and it fits under the ceiling
Fits(totalSize, files) ==
  files # <<>> /\ totalSize + Head(files).size <= MAX_TOTAL_ATTACHMENT_SIZE

\* handleFileChange / handleDrop up to the first await: totalSize is taken
\* from the attachments of the current render
StartAddition(files) ==
  /\ Len(additions) < MaxAdditions
  /\ Len(attachments) + PendingFiles(additions) + Len(files) <= MaxAttachments
  /\ LET totalSize == TotalSize(attachments)
     IN  IF Fits(totalSize, files)
         THEN /\ additions' = Append(additions, [totalSize |-> totalSize,
                                                 files |-> files, newAtts |-> <<>>])
              /\ alerted' = FALSE
         ELSE /\ additions' = additions       \* alert, break, nothing to add
              /\ alerted' = TRUE
  /\ attachments' = attachments
  /\ UNCHANGED <<calendars, selectedCalendarId, selectedTemplate, storage, clock,
                 notice, timer, intervals, scanNow, mounted, limits, currentDate>>

\* the file picker's onChange
handleFileChange == \E files \in FileLists : StartAddition(files)

\* the drop zone's onDrop
handleDrop == \E files \in FileLists : StartAddition(files)

\* reader.onload for the file addition k awaits: the loop goes on to its next
\* await, or ends with setAttachments(prev => [...prev, ...newAtts])
FileRead(k) ==
  /\ k \in 1..Len(additions)
  /\ LET a == additions[k]
         newAtts == Append(a.newAtts, readFile(Head(a.files)))
         totalSize == a.totalSize + Head(a.files).size
         rest == Tail(a.files)
     IN  IF Fits(totalSize, rest)
         THEN /\ additions' = [additions EXCEPT ![k] =
                                 [totalSize |-> totalSize, files |-> rest,
                                  newAtts |-> newAtts]]
              /\ attachments' = attachments
              /\ alerted' = FALSE
         ELSE /\ additions' = RemoveAt(additions, k - 1)
              /\ attachments' = attachments \o newAtts
              /\ alerted' = (rest # <<>>)    \* alert and break, or the loop's end
  /\ UNCHANGED <<calendars, selectedCalendarId, selectedTemplate, storage, clock,
                 notice, timer, intervals, scanNow, mounted, limits, currentDate>>

ReaderLoad == \E k \in 1..MaxAdditions : FileRead(k)

\* removeAttachment(index): attachments.filter((_, i) => i !== index)
removeAttachment(index) ==
  /\ index \in 0..(Len(attachments) - 1)
  /\ attachments' = RemoveAt(attachments, index)
  /\ additions' = additions
  /\ alerted' = FALSE
  /\ UNCHANGED <<calendars, selectedCalendarId, selectedTemplate, storage, clock,
                 notice, timer, intervals, scanNow, mounted, limits, currentDate>>

RemoveAttachment == \E index \in 0..(MaxAttachments - 1) : removeAttachment(index)

\* the form opened on a new template, or on a stored one
FormInit ==
  /\ attachments \in StoredAttachmentLists
  /\ additions = <<>>
  /\ alerted = FALSE
  /\ calendars = <<DefaultCalendar(1)>>
  /\ selectedCalendarId = 1
  /\ selectedTemplate = Null
  /\ storage = MountEffects(calendars, selectedCalendarId)
  /\ limits = [calendars |-> 1, templates |-> 0, events |-> 0]
  /\ clock = 1
  /\ notice = Null
  /\ timer = Null
  /\ intervals = <<>>
  /\ scanNow = Null
  /\ mounted = TRUE
  /\ currentDate = OpeningDate

FormNext ==
  \/ handleFileChange
  \/ handleDrop
  \/ ReaderLoad
  \/ RemoveAttachment

FormSpec == FormInit /\ [][FormNext]_vars

(***************************************************************************)
(* The reference date of the month and week grids.                         *)
(***************************************************************************)
\* the dates goToToday is pressed on
Todays == {NewDate(FirstYear, 1, 29), NewDate(LastYear, 0, 31)}

\* setCurrentDate(d), kept inside the years looked at
SetCurrentDate(d) ==
  /\ d \in Dates
  /\ currentDate' = d
  /\ UNCHANGED <<calendars, selectedCalendarId, selectedTemplate, storage, clock,
                 notice, timer, intervals, scanNow, mounted, limits,
                 attachments, additions, alerted>>

\* CalendarWidget.navigateMonth('prev' | 'next')
navigateMonth ==
  \E step \in {-1, 1} :
    SetCurrentDate(setMonth(currentDate, getMonth(currentDate) + step))

\* CalendarWidget.navigateWeek('prev' | 'next')
navigateWeek ==
  \E step \in {-7, 7} :
    SetCurrentDate(setDate(currentDate, getDate(currentDate) + step))

\* MonthView.goToPrevMonth
goToPrevMonth ==
  SetCurrentDate(NewDate(getFullYear(currentDate), getMonth(currentDate) - 1, 1))

\* MonthView.goToNextMonth
goToNextMonth ==
  SetCurrentDate(NewDate(getFullYear(currentDate), getMonth(currentDate) + 1, 1))

\* MonthView.goToToday
goToToday == \E d \in Todays : SetCurrentDate(d)

\* a grid component mounted on any day
GridInit ==
  /\ currentDate \in Dates
  /\ attachments = <<>>
  /\ additions = <<>>
  /\ alerted = FALSE
  /\ calendars = <<DefaultCalendar(1)>>
  /\ selectedCalendarId = 1
  /\ selectedTemplate = Null
  /\ storage = MountEffects(calendars, selectedCalendarId)
  /\ limits = [calendars |-> 1, templates |-> 0, events |-> 0]
  /\ clock = 1
  /\ notice = Null
  /\ timer = Null
  /\ intervals = <<>>
  /\ scanNow = Null
  /\ mounted = TRUE

GridNext ==
  \/ navigateMonth
  \/ navigateWeek
  \/ goToPrevMonth
  \/ goToNextMonth
  \/ goToToday

GridSpec == GridInit /\ [][GridNext]_vars

(***************************************************************************)
(* Properties.                                                             *)
(***************************************************************************)

\* C1: updateTemplate changes nothing but the template list of the selected
\* calendar: the number, ids, names and event lists of all calendars are as
\* before (every placed event keeps its endTime and its template snapshot),
\* and a calendar with another id than the selected one is left as it was.
C1_UpdateTemplateKeepsEvents ==
  [][UpdateTemplate =>
       /\ Len(calendars') = Len(calendars)
       /\ \A i \in 1..Len(calendars) :
            /\ calendars'[i].events = calendars[i].events
            /\ calendars'[i].id = calendars[i].id
            /\ calendars'[i].name = calendars[i].name
            /\ calendars[i].id
                 # calendars[SelectedIndex(calendars, selectedCalendarId)].id
               => calendars'[i] = calendars[i]]_vars

\* An event placed from a template of 60 minutes still ends 60 minutes after
\* its start and still carries duration 60, while the template of that id
\* now has duration 120.
C1_Witness ==
  /\ mounted
  /\ \E i \in 1..Len(calendars) :
       \E k \in 1..Len(calendars[i].events), j \in 1..Len(calendars[i].templates) :
         /\ calendars[i].templates[j].id = calendars[i].events[k].templateId
         /\ calendars[i].templates[j].duration = 120
         /\ calendars[i].events[k].template.duration = 60
         /\ StartMinutes(calendars[i].events[k].endTime)
              = StartMinutes(calendars[i].events[k].startTime) + 60

C3_AddEventAppendsSnapshot ==
  [][/\ (CellClick \/ DropTemplate) =>
          LET sel == SelectedIndex(calendars, selectedCalendarId)
              old == calendars[sel].events
              new == calendars'[sel].events
          IN  /\ Len(new) = Len(old) + 1
              /\ SubSeq(new, 1, Len(old)) = old
              /\ new[Len(new)].id = clock'
              /\ \/ /\ selectedTemplate # Null
                    /\ new[Len(new)].template = selectedTemplate
                 \/ \E k \in 1..Len(calendars[sel].templates) :
                      new[Len(new)].template = calendars[sel].templates[k]
              /\ new[Len(new)].templateId = new[Len(new)].template.id
     /\ (AddTemplate \/ UpdateTemplate \/ DeleteTemplate) =>
          \A i \in 1..Len(calendars) :
            /\ Len(calendars'[i].events) = Len(calendars[i].events)
            /\ \A k \in 1..Len(calendars[i].events) :
                 calendars'[i].events[k].template = calendars[i].events[k].template
    ]_vars

\* Two events in one calendar, the second appended after the first, one of
\* them with a snapshot that differs from the listed template of its id.
C3_Witness ==
  /\ mounted
  /\ \E i \in 1..Len(calendars) :
       /\ Len(calendars[i].events) = 2
       /\ \E k \in 1..2, j \in 1..Len(calendars[i].templates) :
            /\ calendars[i].templates[j].id = calendars[i].events[k].templateId
            /\ calendars[i].templates[j] # calendars[i].events[k].template

C6_LoadFallsBackToDefault ==
  /\ [](~mounted => \A r \in Ids : Len(LoadCalendars(storage, r).calendars) >= 1)
  /\ [][(Open /\ storage.calendars \in {AbsentItem, EmptyItem, CorruptItem}) =>
          /\ mounted'
          /\ Len(calendars') = 1
          /\ calendars'[1].name = DefaultCalendarName
          /\ calendars'[1].templates = <<>>
          /\ calendars'[1].events = <<>>
          /\ calendars'[1].id = clock']_vars

\* The page is open on the default calendar made at the first reading.
C6_Witness ==
  /\ mounted
  /\ clock = 1
  /\ calendars = <<DefaultCalendar(1)>>

C8_AttachmentsRoundTrip ==
  mounted =>
    /\ Parses(storage.calendars)
    /\ Len(JSONParse(storage.calendars)) = Len(calendars)
    /\ \A i \in 1..Len(calendars) :
         LET mem == calendars[i]
             sto == JSONParse(storage.calendars)[i]
             Same(m, p) ==
               /\ Len(p) = Len(m)
               /\ \A a \in 1..Len(m) :
                    /\ p[a].fileName = m[a].fileName
                    /\ p[a].fileType = m[a].fileType
                    /\ p[a].fileData = m[a].fileData
                    /\ "file" \notin DOMAIN p[a]
         IN  /\ Len(sto.templates) = Len(mem.templates)
             /\ Len(sto.events) = Len(mem.events)
             /\ \A j \in 1..Len(mem.templates) :
                  Same(mem.templates[j].attachments, sto.templates[j].attachments)
             /\ \A k \in 1..Len(mem.events) :
                  Same(mem.events[k].template.attachments,
                       sto.events[k].template.attachments)

\* A template and an event snapshot with the picked file are in storage.
C8_Witness ==
  /\ mounted
  /\ \E i \in 1..Len(calendars) :
       /\ \E j \in 1..Len(calendars[i].templates) :
            JSONParse(storage.calendars)[i].templates[j].attachments
              = <<Omit(PickedFile, "file")>>
       /\ \E k \in 1..Len(calendars[i].events) :
            JSONParse(storage.calendars)[i].events[k].template.attachments
              = <<Omit(PickedFile, "file")>>

C10_SoonestFirstWins ==
  LET Start(ev) == CHOOSE p \in NoticeStarts : p[1] = ev.id
      Today == IF scanNow.weekday = 0 THEN 6 ELSE scanNow.weekday - 1
      Distance(ev) ==
        (Start(ev)[3] * 60 + Start(ev)[4]) * SubPerMin
          - (scanNow.minute * SubPerMin + scanNow.sub)
      Minutes(ev) == CHOOSE n \in 0..(24 * 60) :
                       n * SubPerMin >= Distance(ev)
                         /\ (n - 1) * SubPerMin < Distance(ev)
      Qualifying == {k \in 1..Len(timer.events) :
                       /\ Start(timer.events[k])[2] = Today
                       /\ Distance(timer.events[k]) > 0
                       /\ Distance(timer.events[k]) <= 60 * SubPerMin}
  IN  /\ timer = Null => notice = Null
      /\ timer # Null =>
           /\ notice = Null <=> Qualifying = {}
           /\ \A k \in Qualifying :
                /\ notice.minutesLeft <= Minutes(timer.events[k])
                /\ (\A j \in Qualifying :
                      /\ Minutes(timer.events[k]) <= Minutes(timer.events[j])
                      /\ Minutes(timer.events[k]) = Minutes(timer.events[j]) => k <= j)
                   => /\ notice.eventId = timer.events[k].id
                      /\ notice.minutesLeft = Minutes(timer.events[k])

\* Two events start at 09:30; the one listed first is announced.
C10_Witness ==
  /\ timer # Null
  /\ scanNow = Instant(1, 9, 0, 0)
  /\ timer.events = <<NoticeEvent(6, 0, 9, 30), NoticeEvent(1, 0, 9, 30)>>
  /\ notice # Null
  /\ notice.eventId = 6

\* C11: at most one interval of the notifier is pending; none is pending
\* while the page is closed; and a pending interval scans the event list
\* the page shows now, never a list that was replaced.
C11_OneTimerOnCurrentEvents ==
  /\ Len(intervals) <= 1
  /\ ~mounted => intervals = <<>>
  /\ \A k \in 1..Len(intervals) :
       /\ intervals[k].events = EventsOf(calendars, selectedCalendarId)
       /\ intervals[k] = timer

\* The watched list has grown to two events, so an earlier interval over a
\* shorter list was cancelled, and one interval is pending.
C11_Witness ==
  /\ mounted
  /\ Len(intervals) = 1
  /\ Len(intervals[1].events) = 2
  /\ Len(EventsOf(calendars, selectedCalendarId)) = 2

\* C12: no two templates in the template list of one calendar have the
\* same id.
C12_TemplateIdsUnique ==
  \A i \in 1..Len(calendars) :
    \A j, k \in 1..Len(calendars[i].templates) :
      calendars[i].templates[j].id = calendars[i].templates[k].id => j = k

C14_TwiceAlwaysUnselected ==
  mounted =>
    \A k \in 1..Len(TemplatesOf(calendars, selectedCalendarId)) :
      selectTemplate(
        selectTemplate(selectedTemplate, TemplatesOf(calendars, selectedCalendarId)[k]),
        TemplatesOf(calendars, selectedCalendarId)[k]) = Null

\* C14, amended: a click on template t clears the selection when a
\* template with t's id is selected and selects t otherwise; two calls in a
\* row give back what the first one took: nothing selected when no
\* template with t's id was selected before, t selected when one was.
C14_SelectTemplateToggles ==
  /\ [](mounted =>
         \A k \in 1..Len(TemplatesOf(calendars, selectedCalendarId)) :
           LET t == TemplatesOf(calendars, selectedCalendarId)[k]
               already == selectedTemplate # Null /\ selectedTemplate.id = t.id
               once == selectTemplate(selectedTemplate, t)
               twice == selectTemplate(once, t)
           IN  /\ already => once = Null /\ twice = t
               /\ ~already => once = t /\ twice = Null)
  /\ [][SelectTemplate =>
          \E k \in 1..Len(TemplatesOf(calendars, selectedCalendarId)) :
            LET t == TemplatesOf(calendars, selectedCalendarId)[k]
            IN  selectedTemplate' =
                  IF selectedTemplate # Null /\ selectedTemplate.id = t.id
                  THEN Null ELSE t]_vars

\* The selected template has the id of a listed template whose fields were
\* edited after it was selected: a click on that template clears the
\* selection, a second click selects the edited template.
C14_Witness ==
  /\ mounted
  /\ selectedTemplate # Null
  /\ \E k \in 1..Len(TemplatesOf(calendars, selectedCalendarId)) :
       /\ TemplatesOf(calendars, selectedCalendarId)[k].id = selectedTemplate.id
       /\ TemplatesOf(calendars, selectedCalendarId)[k] # selectedTemplate


\* C15: after any sequence of attachment additions (file picker or drop) the
\* combined size of the form's attachments is at most 20 MB, also when the
\* form was opened on a stored template and when additions overlap.
C15_CombinedSizeWithinCeiling ==
  CombinedSize(attachments) <= MAX_TOTAL_ATTACHMENT_SIZE

\* the ids of the calendars, of all templates and of all events
CalendarIds == {calendars[i].id : i \in 1..Len(calendars)}
TemplateIds ==
  UNION {{calendars[i].templates[j].id : j \in 1..Len(calendars[i].templates)} :
           i \in 1..Len(calendars)}
EventIds ==
  UNION {{calendars[i].events[k].id : k \in 1..Len(calendars[i].events)} :
           i \in 1..Len(calendars)}

\* C16: updateTemplate, deleteTemplate, updateEvent, deleteEvent,
\* renameCalendar and deleteCalendar called with an id that no template,
\* event or calendar has leave the calendars list, every template and event
\* and the selected calendar id as they were.
C16_AbsentIdIsNoOp ==
  /\ \A id \in Ids \ TemplateIds :
       /\ \A form \in Forms :
            updateTemplate(calendars, selectedCalendarId, id,
                           handleSubmit(form.data, form.attachments)) = calendars
       /\ deleteTemplate(calendars, selectedCalendarId, id) = calendars
  /\ \A id \in Ids \ EventIds :
       /\ \A cell \in Cells :
            updateEvent(calendars, selectedCalendarId, id,
                        [day |-> cell[1],
                         startTime |-> FormatTime(cell[2], 0),
                         endTime |-> FormatTime(cell[2] + 1, 0)]) = calendars
       /\ deleteEvent(calendars, selectedCalendarId, id) = calendars
  /\ \A id \in Ids \ CalendarIds :
       /\ \A name \in RenamedNames : renameCalendar(calendars, id, name) = calendars
       /\ deleteCalendar(calendars, id) = calendars
       /\ deleteCalendarSelection(calendars, selectedCalendarId, id)
            = selectedCalendarId

\* a calendar with a template and an event, and an id nothing has
C16_Witness ==
  /\ mounted
  /\ \E i \in 1..Len(calendars) :
       calendars[i].templates # <<>> /\ calendars[i].events # <<>>
  /\ Ids \ (TemplateIds \cup EventIds \cup CalendarIds) # {}

\* the days of a month by the calendar's rule (month is 0..11)
DaysInMonth(year, month) ==
  IF month = 1
  THEN IF year % 4 = 0 /\ (year % 100 # 0 \/ year % 400 = 0) THEN 29 ELSE 28
  ELSE IF month \in {3, 5, 8, 10} THEN 30 ELSE 31

\* a month grid of 42 cells whose current-month cells are the run of the
\* month's length that starts at the Monday-based weekday of the 1st
IsMonthGrid(grid, current) ==
  LET first == NewDate(getFullYear(current), getMonth(current), 1)
      start == (first + 3) % 7
      n == DaysInMonth(getFullYear(current), getMonth(current))
  IN  /\ Len(grid) = 42
      /\ \A c \in 1..Len(grid) :
           grid[c].isCurrentMonth <=> (start < c /\ c <= start + n)
      /\ getDay(grid[1].fullDate) = 1

\* C17: for every reference date the month grid has exactly 42 cells, and
\* its isCurrentMonth cells are one contiguous run of the month's length
\* that starts at the Monday-based weekday of the 1st, so the grid starts on
\* a Monday.
C17_MonthGridShape ==
  /\ IsMonthGrid(generateCalendarDays(currentDate), currentDate)
  /\ IsMonthGrid(calendarDays(currentDate), currentDate)

\* a 31-day month whose 1st is a Sunday: the run ends in the 37th cell
C17_Witness ==
  /\ generateCalendarDays(currentDate)[37].isCurrentMonth
  /\ generateCalendarDays(currentDate)[37].date = 31
  /\ getDate(currentDate) = 15

C19_WeekGridShape ==
  LET week == generateWeekDays(currentDate)
  IN  /\ Len(week) = 7
      /\ \A k \in 1..6 : week[k + 1].fullDate = week[k].fullDate + 1
      /\ \A k \in 1..7 : week[k].date = CivilFromDays(week[k].fullDate).date
      /\ getDay(week[1].fullDate) = 1
      /\ \E k \in 1..7 : week[k].fullDate = currentDate

\* a Sunday early in a month: its week began in the month before
C19_Witness ==
  /\ getDay(currentDate) = 0
  /\ getDate(currentDate) < 7
  /\ generateWeekDays(currentDate)[7].fullDate = currentDate
  /\ generateWeekDays(currentDate)[1].date > generateWeekDays(currentDate)[7].date

\* C20: addTemplate, updateTemplate, deleteTemplate, addEvent, updateEvent
\* and deleteEvent change only the selected calendar: every other calendar
\* of the list keeps its templates and events, the calendars keep their
\* order, and the selected calendar id stays.
C20_OnlySelectedCalendarChanges ==
  [][(AddTemplate \/ UpdateTemplate \/ DeleteTemplate
        \/ CellClick \/ DropTemplate \/ DragEvent \/ DeleteEvent) =>
       /\ selectedCalendarId' = selectedCalendarId
       /\ Len(calendars') = Len(calendars)
       /\ \A i \in 1..Len(calendars) :
            /\ calendars'[i].id = calendars[i].id
            /\ i # SelectedIndex(calendars, selectedCalendarId)
                 => calendars'[i] = calendars[i]]_vars


\* the partial updates updateEvent is given: a move with its three fields,
\* a new start alone, a new day alone
PartialUpdates ==
  {[day |-> 4, startTime |-> FormatTime(11, 0), endTime |-> FormatTime(11, 30)],
   [startTime |-> FormatTime(11, 0)],
   [day |-> 4]}

\* C21: updateEvent(id, partialFields) overwrites in the event with that id
\* exactly the provided fields and keeps its other fields; endTime is never
\* recomputed from the template duration; all other events and the order of
\* the event list are unchanged.
C21_UpdateEventMergesFields ==
  \A id \in Ids, updates \in PartialUpdates :
    LET before == EventsOf(calendars, selectedCalendarId)
        after == EventsOf(updateEvent(calendars, selectedCalendarId, id, updates),
                          selectedCalendarId)
    IN  /\ Len(after) = Len(before)
        /\ \A k \in 1..Len(before) :
             IF before[k].id = id
             THEN /\ DOMAIN after[k] = (DOMAIN before[k]) \cup (DOMAIN updates)
                  /\ \A f \in DOMAIN updates : after[k][f] = updates[f]
                  /\ \A f \in (DOMAIN before[k]) \ (DOMAIN updates) :
                       after[k][f] = before[k][f]
             ELSE after[k] = before[k]

\* an event given a new start alone: it now starts at 11:00 and still ends
\* where it ended, which is not its start plus the snapshot's duration
C21_Witness ==
  \E k \in 1..Len(EventsOf(calendars, selectedCalendarId)) :
    LET before == EventsOf(calendars, selectedCalendarId)[k]
        after == EventsOf(updateEvent(calendars, selectedCalendarId, before.id,
                                      [startTime |-> FormatTime(11, 0)]),
                          selectedCalendarId)[k]
    IN  /\ mounted
        /\ after.startTime = FormatTime(11, 0)
        /\ after.endTime = before.endTime
        /\ StartMinutes(after.endTime)
             # StartMinutes(after.startTime) + after.template.duration


\* the data updateTemplate is given (Omit<Template, 'id'>): what the form
\* submits, and data that leaves the optional attachments out
TemplateDatas ==
  {handleSubmit(form.data, form.attachments) : form \in Forms}
    \cup {[name |-> "C", duration |-> 30]}

\* C22: templates are mutated by full-field replacement: after
\* updateTemplate(id, data) the stored template with that id equals data
\* with id set to id, so a field the stored template had and data does not
\* provide is not retained; the template keeps its position and the list its
\* length.
C22_UpdateTemplateReplaces ==
  \A id \in Ids, data \in TemplateDatas :
    LET before == TemplatesOf(calendars, selectedCalendarId)
        after == TemplatesOf(updateTemplate(calendars, selectedCalendarId, id, data),
                             selectedCalendarId)
    IN  /\ Len(after) = Len(before)
        /\ \A j \in 1..Len(before) :
             IF before[j].id = id
             THEN after[j] = [f \in (DOMAIN data) \cup {"id"} |->
                                IF f = "id" THEN id ELSE data[f]]
             ELSE after[j] = before[j]

\* C22 as the store has it: the data is merged into the stored template.
\* Every field of data takes data's value, id is set to id, every field data
\* does not provide is retained; position and list length are unchanged.
C22_UpdateTemplateMerges ==
  \A id \in Ids, data \in TemplateDatas :
    LET before == TemplatesOf(calendars, selectedCalendarId)
        after == TemplatesOf(updateTemplate(calendars, selectedCalendarId, id, data),
                             selectedCalendarId)
    IN  /\ Len(after) = Len(before)
        /\ \A j \in 1..Len(before) :
             IF before[j].id = id
             THEN /\ DOMAIN after[j] = (DOMAIN before[j]) \cup (DOMAIN data)
                  /\ after[j].id = id
                  /\ \A f \in (DOMAIN data) \ {"id"} : after[j][f] = data[f]
                  /\ \A f \in (DOMAIN before[j]) \ (DOMAIN data) :
                       after[j][f] = before[j][f]
             ELSE after[j] = before[j]

\* a stored template with an attachment, updated with data that has no
\* attachments field: the attachment is still there
C22_Witness ==
  \E j \in 1..Len(TemplatesOf(calendars, selectedCalendarId)) :
    LET before == TemplatesOf(calendars, selectedCalendarId)[j]
        after == TemplatesOf(updateTemplate(calendars, selectedCalendarId, before.id,
                                            [name |-> "C", duration |-> 30]),
                             selectedCalendarId)[j]
    IN  /\ mounted
        /\ before.attachments # <<>>
        /\ after.name = "C"
        /\ after.attachments = before.attachments


\* C23: reorderCalendars(from, to) is a stable array move.  With both
\* indexes inside the list the calendar at index from ends at index to, the
\* other calendars keep their relative order and the calendars are the same
\* ones; with an index negative or not below the length the list is
\* unchanged.  The selected calendar id is unchanged.
C23_ReorderIsStableMove ==
  /\ [](\A fromIndex \in -1..Len(calendars), toIndex \in -1..Len(calendars) :
          LET after == reorderCalendars(calendars, fromIndex, toIndex)
          IN  IF fromIndex \in 0..(Len(calendars) - 1)
                   /\ toIndex \in 0..(Len(calendars) - 1)
              THEN /\ Len(after) = Len(calendars)
                   /\ after[toIndex + 1] = calendars[fromIndex + 1]
                   /\ \A k \in 1..(Len(calendars) - 1) :
                        after[IF k <= toIndex THEN k ELSE k + 1]
                          = calendars[IF k <= fromIndex THEN k ELSE k + 1]
              ELSE after = calendars)
  /\ [][ReorderCalendars =>
          /\ selectedCalendarId' = selectedCalendarId
          /\ \E fromIndex \in -1..Len(calendars), toIndex \in -1..Len(calendars) :
               calendars' = reorderCalendars(calendars, fromIndex, toIndex)]_vars

\* three calendars, the first unlike the others, and the move of the first
\* to the end: the other two have moved up in their order
C23_Witness ==
  /\ Len(calendars) = 3
  /\ calendars[1] # calendars[2]
  /\ calendars[1] # calendars[3]
  /\ calendars[2] # calendars[3]
  /\ reorderCalendars(calendars, 0, 2) = <<calendars[2], calendars[3], calendars[1]>>


\* C24: addCalendar(name) appends exactly one calendar with the given name,
\* no templates and no events at the end of the list, leaves every existing
\* calendar unchanged, and makes the new calendar the selected one.
C24_AddCalendarAppendsAndSelects ==
  [][AddCalendar =>
       /\ Len(calendars') = Len(calendars) + 1
       /\ SubSeq(calendars', 1, Len(calendars)) = calendars
       /\ calendars'[Len(calendars')].name \in NewCalendarNames
       /\ calendars'[Len(calendars')].templates = <<>>
       /\ calendars'[Len(calendars')].events = <<>>
       /\ selectedCalendarId' = calendars'[Len(calendars')].id
       /\ SelectedIndex(calendars', selectedCalendarId') = Len(calendars')]_vars


\* C25: when the selected calendar is switched (selectCalendar, addCalendar
\* or the fallback of deleteCalendar) the template selection is cleared:
\* after the switch selectedTemplate is null.
C25_SwitchClearsTemplateSelection ==
  [][((SelectCalendar \/ AddCalendar \/ DeleteCalendar)
        /\ selectedCalendarId' # selectedCalendarId) =>
       selectedTemplate' = Null]_vars


\* C26: when adding a file would take the aggregate attachment size past
\* 20 MB the addition is rejected and the user is notified, and the list is
\* not corrupted: the attachments that were in the list are still there,
\* unchanged and in their order, and the rejected file is not in the list.
C26_OversizeAdditionRejected ==
  [][(handleFileChange \/ handleDrop \/ ReaderLoad) =>
       \* no file is accepted past the ceiling
       /\ Len(attachments') > Len(attachments)
            => CombinedSize(attachments') <= MAX_TOTAL_ATTACHMENT_SIZE
       \* what was in the list stays, in its order
       /\ Len(attachments') >= Len(attachments)
       /\ SubSeq(attachments', 1, Len(attachments)) = attachments
       \* a pick refused at its first file adds nothing and alerts
       /\ (Len(additions') = Len(additions) /\ attachments' = attachments
             /\ \A k \in 1..Len(additions) : additions'[k] = additions[k])
            => alerted'
       \* a pick stopped at a later file adds the files before it and alerts
       /\ \A k \in 1..Len(additions) :
            (additions' = RemoveAt(additions, k - 1) /\ Len(additions[k].files) > 1)
              => /\ alerted'
                 /\ \/ attachments' = attachments \o additions[k].newAtts
                                        \o <<readFile(Head(additions[k].files))>>
                    \/ \E j \in 1..Len(additions) :
                         /\ j # k
                         /\ additions[j] = additions[k]]_vars


\* selected is null or equals the template of its id in the selected
\* calendar's template list
IsCurrentTemplate(selected, cs, sid) ==
  selected # Null =>
    \E j \in 1..Len(TemplatesOf(cs, sid)) :
      /\ TemplatesOf(cs, sid)[j].id = selected.id
      /\ TemplatesOf(cs, sid)[j] = selected

\* C27: whenever selectedTemplate is not null it equals the template with
\* the same id stored in the selected calendar's template list, after any
\* sequence of selectTemplate, updateTemplate, deleteTemplate and
\* selectCalendar: each of them leads from a state where this is so to a
\* state where it is so, and a cell click embeds such a template.
C27_SelectedTemplateIsCurrent ==
  [][(SelectTemplate \/ UpdateTemplate \/ DeleteTemplate \/ SelectCalendar
        \/ CellClick) =>
       (IsCurrentTemplate(selectedTemplate, calendars, selectedCalendarId)
          => IsCurrentTemplate(selectedTemplate', calendars', selectedCalendarId'))]_vars


\* C28: for every event created by a week-grid cell click or template drop
\* and then moved by event drag any number of times, with template updates
\* interleaved in any order, endTime minus startTime in minutes equals the
\* duration of the event's own embedded template snapshot.
C28_IntervalMatchesSnapshot ==
  \A i \in 1..Len(calendars) :
    \A k \in 1..Len(calendars[i].events) :
      StartMinutes(calendars[i].events[k].endTime)
        - StartMinutes(calendars[i].events[k].startTime)
        = calendars[i].events[k].template.duration


\* C30: in every reachable state no two events of one calendar's event list
\* have the same id, so deleteEvent(id) removes at most one event and
\* updateEvent(id, fields) changes at most one event.
C30_EventIdsUnique ==
  /\ \A i \in 1..Len(calendars) :
       \A k, l \in 1..Len(calendars[i].events) :
         calendars[i].events[k].id = calendars[i].events[l].id => k = l
  /\ \A id \in Ids :
       Len(EventsOf(deleteEvent(calendars, selectedCalendarId, id), selectedCalendarId))
         >= Len(EventsOf(calendars, selectedCalendarId)) - 1


\* C29: for every interleaving of store mutations (add, move, delete of
\* events, calendar switch) with notifier ticks, once a mutation's re-render
\* and effect have run the notice is null or names an event that is in the
\* selected calendar's event list and whose day is the index of the day of
\* the scan; a notice for a deleted event does not persist.
C29_NoticeNamesCurrentEvent ==
  notice # Null =>
    /\ mounted
    /\ scanNow # Null
    /\ \E k \in 1..Len(EventsOf(calendars, selectedCalendarId)) :
         /\ EventsOf(calendars, selectedCalendarId)[k].id = notice.eventId
         /\ EventsOf(calendars, selectedCalendarId)[k].template.name = notice.title
         /\ EventsOf(calendars, selectedCalendarId)[k].day = (scanNow.weekday + 6) % 7

\* two events with different ids, the notice naming the second: the first
\* is on another day
C29_Witness ==
  /\ notice # Null
  /\ Len(EventsOf(calendars, selectedCalendarId)) = 2
  /\ EventsOf(calendars, selectedCalendarId)[2].id = notice.eventId
  /\ EventsOf(calendars, selectedCalendarId)[1].id # notice.eventId
  /\ EventsOf(calendars, selectedCalendarId)[1].day # (scanNow.weekday + 6) % 7

=============================================================================
